---- MODULE Spec2Model ----
(***************************************************************************)
(* Finance calculation engine and vehicle match scorer of the automotive   *)
(* shopping backend (backend/utils/finance_calculator.py,                  *)
(* backend/api/finance.py, backend/schemas/finance_schemas.py).            *)
(*                                                                         *)
(* Numbers.  Python floats are modelled as exact rationals: a record       *)
(* [neg, n, d] whose numerator n and denominator d are natural numbers of  *)
(* arbitrary size, written as sequences of base-10000 limbs, least         *)
(* significant first, <<>> being 0.  round(x, 2) is modelled by Round2,    *)
(* Python's round-half-to-even, and yields a whole number of CENTS: every  *)
(* monetary field a calculator returns is held in cents.  Monetary inputs  *)
(* are given in cents and a rate in percent (or as a fraction), and are    *)
(* converted to rationals before the code's arithmetic is applied.         *)
(***************************************************************************)
EXTENDS Integers, Sequences, FiniteSets, TLC

-----------------------------------------------------------------------------
(* Natural numbers of arbitrary size.                                      *)

Base == 10000

RECURSIVE BNorm(_)
BNorm(a) ==
  IF a = <<>> THEN a
  ELSE IF a[Len(a)] = 0 THEN BNorm(SubSeq(a, 1, Len(a) - 1)) ELSE a

RECURSIVE BFromInt(_)
BFromInt(k) == IF k = 0 THEN <<>> ELSE <<k % Base>> \o BFromInt(k \div Base)

RECURSIVE BToInt(_)
BToInt(a) == IF a = <<>> THEN 0 ELSE a[1] + Base * BToInt(Tail(a))

Limb(a, i) == IF i <= Len(a) THEN a[i] ELSE 0

\* the limb that the amount s leaves in its place, and the carry it passes on
\* (a borrow is the carry -1)
BCarryLimb(s) == [limbs |-> <<s % Base>>, c |-> s \div Base]

BCarryJoin(low, high) == [limbs |-> low.limbs \o high.limbs, c |-> high.c]

\* the places lo..hi of the amounts v with the carry c coming in: the lower
\* half is carried first and hands its carry to the upper half
RECURSIVE BCarry(_, _, _, _)
RECURSIVE BCarryUpper(_, _, _, _)
BCarry(v, lo, hi, c) ==
  IF lo = hi THEN BCarryLimb(v[lo] + c)
  ELSE BCarryUpper(v, (lo + hi) \div 2, hi, BCarry(v, lo, (lo + hi) \div 2, c))

BCarryUpper(v, mid, hi, low) == BCarryJoin(low, BCarry(v, mid + 1, hi, low.c))

BCarryTop(r) == IF r.c = 0 THEN r.limbs ELSE r.limbs \o <<r.c>>

\* the number whose i-th limb holds the amount v[i]
BCarried(v) == IF v = <<>> THEN v ELSE BCarryTop(BCarry(v, 1, Len(v), 0))

BAdd(a, b) ==
  BCarried([i \in 1..(IF Len(a) > Len(b) THEN Len(a) ELSE Len(b)) |->
              Limb(a, i) + Limb(b, i)])

\* a - b for a >= b
BSub(a, b) == BNorm(BCarried([i \in 1..Len(a) |-> a[i] - Limb(b, i)]))

\* a * k for 0 <= k < Base
BMulSmall(a, k) == IF k = 0 THEN <<>> ELSE BCarried([i \in 1..Len(a) |-> a[i] * k])

\* a * Base ** k
BShift(a, k) == IF a = <<>> THEN a ELSE [i \in 1..k |-> 0] \o a

\* a times the limbs lo..hi of b
RECURSIVE BMulR(_, _, _, _)
BMulR(a, b, lo, hi) ==
  IF lo = hi THEN BMulSmall(a, b[lo])
  ELSE BAdd(BMulR(a, b, lo, (lo + hi) \div 2),
            BShift(BMulR(a, b, (lo + hi) \div 2 + 1, hi), (lo + hi) \div 2 - lo + 1))

BMul(a, b) == IF b = <<>> THEN b ELSE BMulR(a, b, 1, Len(b))

RECURSIVE BLeqR(_, _, _)
BLeqR(a, b, i) ==
  IF i = 0 THEN TRUE
  ELSE IF a[i] # b[i] THEN a[i] < b[i] ELSE BLeqR(a, b, i - 1)

BLeq(a, b) == IF Len(a) # Len(b) THEN Len(a) < Len(b) ELSE BLeqR(a, b, Len(a))

RECURSIVE BDigit(_, _, _, _)
BDigit(r, d, lo, hi) ==
  IF lo = hi THEN lo
  ELSE LET mid == (lo + hi + 1) \div 2
       IN  IF BLeq(BMulSmall(d, mid), r) THEN BDigit(r, d, mid, hi)
           ELSE BDigit(r, d, lo, mid - 1)

\* the quotient q gains the digit t, which leaves rem - d * t
BDivPut(q, rem, d, t) ==
  [q |-> BNorm(<<t>> \o q), r |-> BSub(rem, BMulSmall(d, t))]

BDivTake(q, rem, d) == BDivPut(q, rem, d, BDigit(rem, d, 0, Base - 1))

\* one step of the long division: the next limb is brought down
BDivStep(prev, limb, d) == BDivTake(prev.q, BNorm(<<limb>> \o prev.r), d)

\* acc is the division of the limbs of n above the i-th, and is worked out
\* before the i-th limb is brought down
RECURSIVE BDivModR(_, _, _, _)
BDivModR(n, d, i, acc) ==
  IF i > 0 /\ Len(acc.r) >= 0 THEN BDivModR(n, d, i - 1, BDivStep(acc, n[i], d))
  ELSE acc

\* the division starts below the limbs of n that are too few to hold d
BDivModBelow(n, d, k) ==
  BDivModR(n, d, Len(n) - k, [q |-> <<>>, r |-> SubSeq(n, Len(n) - k + 1, Len(n))])

\* quotient and remainder of n by d, d > 0 (long division)
BDivMod(n, d) ==
  BDivModBelow(n, d, IF Len(n) >= Len(d) THEN Len(d) - 1 ELSE Len(n))

-----------------------------------------------------------------------------
(* Rationals: the values of Python's float expressions.                    *)

Abs(k) == IF k < 0 THEN -k ELSE k

\* the float a / b for integers a and b > 0
RFrac(a, b) == [neg |-> a < 0, n |-> BFromInt(Abs(a)), d |-> BFromInt(b)]

RInt(k) == RFrac(k, 1)

\* a monetary amount given in cents, as a float in currency units
FromCents(c) == RFrac(c, 100)

RIsZero(x) == x.n = <<>>

RNeg(x) == IF RIsZero(x) THEN x ELSE [x EXCEPT !.neg = ~@]

RMul(x, y) ==
  [neg |-> (x.neg # y.neg) /\ ~RIsZero(x) /\ ~RIsZero(y),
   n |-> BMul(x.n, y.n), d |-> BMul(x.d, y.d)]

\* x / y for y # 0 (the callers branch on y = 0, where Python raises)
RDiv(x, y) == RMul(x, [neg |-> y.neg, n |-> y.d, d |-> y.n])

\* a / d + b / d for the magnitudes a and b of the signs xneg and yneg
RAddOver(xneg, yneg, a, b, d) ==
  IF xneg = yneg THEN [neg |-> xneg, n |-> BAdd(a, b), d |-> d]
  ELSE IF a = b THEN [neg |-> FALSE, n |-> <<>>, d |-> d]
  ELSE IF BLeq(b, a) THEN [neg |-> xneg, n |-> BSub(a, b), d |-> d]
  ELSE [neg |-> yneg, n |-> BSub(b, a), d |-> d]

RAdd(x, y) ==
  RAddOver(x.neg, y.neg, BMul(x.n, y.d), BMul(y.n, x.d), BMul(x.d, y.d))

RSub(x, y) == RAdd(x, RNeg(y))

\* x ** n for an int n >= 1
RECURSIVE RPowR(_, _)
RPowR(x, n) ==
  IF n = 1 THEN x ELSE RMul(RPowR(x, n \div 2), RPowR(x, n - n \div 2))

\* x ** n for an int n and x # 0 when n < 0
RPow(x, n) ==
  IF n = 0 THEN RInt(1)
  ELSE RPowR(IF n > 0 THEN x ELSE [neg |-> x.neg, n |-> x.d, d |-> x.n], Abs(n))

\* q cents and twice / (2 * d) of a cent: a tie goes to the even cent
RoundHalfEven(neg, q, twice, d) ==
  LET up == IF twice = d THEN q % 2 = 1 ELSE BLeq(d, twice)
      mag == IF up THEN q + 1 ELSE q
  IN  IF neg THEN -mag ELSE mag

\* m.q cents and m.r / d of a cent, to the nearest cent
RoundCents(neg, m, d) == RoundHalfEven(neg, BToInt(m.q), BMulSmall(m.r, 2), d)

\* round(x, 2) in cents: nearest cent, a tie going to the even cent
Round2(x) == RoundCents(x.neg, BDivMod(BMul(x.n, <<100>>), x.d), x.d)

-----------------------------------------------------------------------------
(* Outcomes of a call: a returned value or a raised exception.             *)

Return(v) == [ok |-> TRUE, val |-> v]
Raise(e) == [ok |-> FALSE, exc |-> e]

-----------------------------------------------------------------------------
(* FinanceCalculator (backend/utils/finance_calculator.py).                *)

\* lines 24 and 89: interest_rate / 12 / 100
MonthlyRate(interest_rate) == RDiv(RDiv(interest_rate, RInt(12)), RInt(100))

\* variant: the total is taken over a year, whatever the term
LoanTotalCostOverYear(monthly_payment, loan_term_months) ==
  RMul(monthly_payment, RInt(12))

\* line 31: monthly_payment * loan_term_months
LoanTotalCost(monthly_payment, loan_term_months) ==
  RMul(monthly_payment, RInt(loan_term_months))

\* calculate_loan_payment: prices in cents, the rate a float in percent
calculate_loan_payment(vehicle_price, down_payment, interest_rate, loan_term_months) ==
  LET loan_amount == RSub(FromCents(vehicle_price), FromCents(down_payment))
      monthly_rate == MonthlyRate(interest_rate)
      growth == RPow(RAdd(RInt(1), monthly_rate), loan_term_months)
      divisor == RSub(growth, RInt(1))
      divides == IF RIsZero(monthly_rate) THEN loan_term_months # 0
                 ELSE ~RIsZero(divisor)
      monthly_payment ==
        IF RIsZero(monthly_rate) THEN RDiv(loan_amount, RInt(loan_term_months))
        ELSE RDiv(RMul(loan_amount, RMul(monthly_rate, growth)), divisor)
      total_cost == LoanTotalCost(monthly_payment, loan_term_months)
      total_interest == RSub(total_cost, loan_amount)
  IN  IF ~divides THEN Raise("ZeroDivisionError")
      ELSE Return([monthly_payment |-> Round2(monthly_payment),
                   total_cost |-> Round2(total_cost),
                   total_interest |-> Round2(total_interest),
                   loan_term_months |-> loan_term_months,
                   loan_amount |-> Round2(loan_amount)])

\* variant: the finance charge is taken off the depreciation fee
LeaseMonthlyPaymentLess(monthly_depreciation, monthly_finance_charge) ==
  RSub(monthly_depreciation, monthly_finance_charge)

\* line 63: monthly_depreciation + monthly_finance_charge
LeaseMonthlyPayment(monthly_depreciation, monthly_finance_charge) ==
  RAdd(monthly_depreciation, monthly_finance_charge)

\* calculate_lease_payment: prices in cents, money_factor a float
calculate_lease_payment(vehicle_price, residual_value, money_factor, down_payment, lease_term_months) ==
  LET capitalized_cost == RSub(FromCents(vehicle_price), FromCents(down_payment))
      residual == FromCents(residual_value)
      monthly_depreciation ==
        RDiv(RSub(capitalized_cost, residual), RInt(lease_term_months))
      monthly_finance_charge == RMul(RAdd(capitalized_cost, residual), money_factor)
      monthly_payment == LeaseMonthlyPayment(monthly_depreciation, monthly_finance_charge)
      total_cost == RAdd(RMul(monthly_payment, RInt(lease_term_months)),
                         FromCents(down_payment))
  IN  IF lease_term_months = 0 THEN Raise("ZeroDivisionError")
      ELSE Return([monthly_payment |-> Round2(monthly_payment),
                   total_lease_cost |-> Round2(total_cost),
                   capitalized_cost |-> Round2(capitalized_cost),
                   monthly_depreciation |-> Round2(monthly_depreciation),
                   monthly_finance_charge |-> Round2(monthly_finance_charge),
                   lease_term_months |-> lease_term_months])

\* variant: the payments are not discounted month by month
AnnuityFactorUndiscounted(monthly_rate, loan_term_months) ==
  RDiv(RSub(RInt(1), RPow(RAdd(RInt(1), monthly_rate), -1)), monthly_rate)

\* line 94: (1 - (1 + monthly_rate)**-loan_term_months) / monthly_rate
AnnuityFactor(monthly_rate, loan_term_months) ==
  RDiv(RSub(RInt(1), RPow(RAdd(RInt(1), monthly_rate), -loan_term_months)),
       monthly_rate)

\* calculate_affordability: incomes in cents, the rate a float in percent
calculate_affordability(monthly_income, monthly_expenses, down_payment, interest_rate, loan_term_months) ==
  LET monthly_available ==
        RSub(RMul(FromCents(monthly_income), RFrac(2, 10)), FromCents(monthly_expenses))
      monthly_rate == MonthlyRate(interest_rate)
      max_loan_amount ==
        IF RIsZero(monthly_rate) THEN RMul(monthly_available, RInt(loan_term_months))
        ELSE RMul(monthly_available, AnnuityFactor(monthly_rate, loan_term_months))
      max_vehicle_price == RAdd(max_loan_amount, FromCents(down_payment))
  IN  Return([max_vehicle_price |-> Round2(max_vehicle_price),
              monthly_payment_capacity |-> Round2(monthly_available),
              max_loan_amount |-> Round2(max_loan_amount)])

\* variant: current_value is never moved on from initial_value
CurrentValueNotUpdated(initial_value, keep, year) == initial_value

\* lines 116 and 123: current_value as the loop enters `year`, the new_value
\* of the year before
CurrentValue(initial_value, keep, year) ==
  IF year = 1 THEN initial_value ELSE RMul(initial_value, RPow(keep, year - 1))

\* the three values the loop body of calculate_depreciation appends for `year`
DepreciationYear(initial_value, annual_depreciation_rate, year) ==
  LET keep == RSub(RInt(1), annual_depreciation_rate)
      current_value == CurrentValue(initial_value, keep, year)
      new_value == RMul(initial_value, RPow(keep, year))
  IN  [value |-> Round2(new_value),
       depreciation_amount |-> Round2(RSub(current_value, new_value)),
       cumulative |-> Round2(RSub(initial_value, new_value))]

\* calculate_depreciation: initial_value in cents, the rate a float
calculate_depreciation(initial_value, years, annual_depreciation_rate) ==
  LET row(year) == DepreciationYear(FromCents(initial_value),
                                    annual_depreciation_rate, year)
      n == IF years > 0 THEN years ELSE 0
  IN  Return([yearly_values |-> [y \in 1..n |-> row(y).value],
              yearly_depreciation |-> [y \in 1..n |-> row(y).depreciation_amount],
              cumulative_depreciation |-> [y \in 1..n |-> row(y).cumulative]])

\* lines 13 and 46: the defaults of loan_term_months and lease_term_months
DefaultLoanTermMonths == 60
DefaultLeaseTermMonths == 36

\* lines 153-168: the comparison built from the two results; self holds the
\* attributes of the calculator
Comparison(self, loan_calc, lease_calc) ==
  IF ~loan_calc.ok THEN loan_calc
  ELSE IF ~lease_calc.ok THEN lease_calc
  ELSE Return([loan |-> [monthly_payment |-> loan_calc.val.monthly_payment,
                         total_cost |-> loan_calc.val.total_cost,
                         ownership |-> "Yes",
                         term_months |-> self.default_loan_term],
               lease |-> [monthly_payment |-> lease_calc.val.monthly_payment,
                          total_cost |-> lease_calc.val.total_lease_cost,
                          ownership |-> "No",
                          term_months |-> self.default_lease_term]])

\* compare_lease_vs_loan: the two calculators are called without a term
compare_lease_vs_loan(self, vehicle_price, down_payment, loan_interest_rate, lease_money_factor, residual_value) ==
  Comparison(self,
             calculate_loan_payment(vehicle_price, down_payment, loan_interest_rate,
                                    DefaultLoanTermMonths),
             calculate_lease_payment(vehicle_price, residual_value, lease_money_factor,
                                     down_payment, DefaultLeaseTermMonths))

-----------------------------------------------------------------------------
(* The match scorer (backend/api/finance.py).  A str is a sequence of       *)
(* one-character strings; an Optional[str] is [isNone, s]; a feature name   *)
(* is a number of Features.                                                 *)

None == [isNone |-> TRUE, s |-> <<>>]
Some(s) == [isNone |-> FALSE, s |-> s]

\* truth value of an Optional[str]: None and "" are false
Truthy(v) == ~v.isNone /\ v.s # <<>>

Digits == <<"0", "1", "2", "3", "4", "5", "6", "7", "8", "9">>

IsDigit(c) == \E i \in DOMAIN Digits : Digits[i] = c

DigitVal(c) == (CHOOSE i \in DOMAIN Digits : Digits[i] = c) - 1

RECURSIVE ParseDigits(_, _)
ParseDigits(s, acc) ==
  IF s = <<>> THEN acc ELSE ParseDigits(Tail(s), 10 * acc + DigitVal(Head(s)))

\* int(s) for a str s: a run of decimal digits, anything else a ValueError
ParseInt(s) ==
  IF s # <<>> /\ \A i \in DOMAIN s : IsDigit(s[i])
  THEN Return(ParseDigits(s, 0)) ELSE Raise("ValueError")

Upper == <<"A", "E", "G", "S", "V">>
Lower == <<"a", "e", "g", "s", "v">>

LowerChar(c) ==
  IF \E i \in DOMAIN Upper : Upper[i] = c
  THEN Lower[CHOOSE i \in DOMAIN Upper : Upper[i] = c] ELSE c

\* str.lower()
ToLower(s) == [i \in DOMAIN s |-> LowerChar(s[i])]

\* needle in haystack, for two strs
IsSubstring(needle, haystack) ==
  \E i \in 0..(Len(haystack) - Len(needle)) :
    SubSeq(haystack, i + 1, i + Len(needle)) = needle

\* x in l, for a list l
InList(x, l) == \E i \in DOMAIN l : l[i] = x

\* set(l), for a list l
ToSet(l) == {l[i] : i \in DOMAIN l}

\* variant: the must-have list is not made a set, a repeated name counts twice
FeaturePenaltyPerEntry(vehicle, preferences) ==
  Cardinality({i \in DOMAIN preferences.mustHaveFeatures :
                 ~InList(preferences.mustHaveFeatures[i], vehicle.features)}) * 10

\* variant: the points for the missing features are added, not taken off
FeaturePenaltyNegated(vehicle, preferences) ==
  -10 * Cardinality(ToSet(preferences.mustHaveFeatures) \ ToSet(vehicle.features))

\* lines 253-256: ten points off per must-have feature the vehicle lacks
FeaturePenalty(vehicle, preferences) ==
  LET vehicle_features == ToSet(vehicle.features)
      must_have_features == ToSet(preferences.mustHaveFeatures)
      missing_features == must_have_features \ vehicle_features
  IN  Cardinality(missing_features) * 10

\* variant: the penalty grows with the number of seats short
SeatingPenaltyPerSeat(capacity, seatingMinimum) ==
  IF capacity < seatingMinimum THEN 10 * (seatingMinimum - capacity) ELSE 0

\* lines 259-261: a flat 30 off when the capacity is below the minimum
SeatingPenalty(capacity, seatingMinimum) ==
  IF capacity < seatingMinimum THEN 30 ELSE 0

\* lines 264-267: ten points on or off for the fuel preference
FuelBonus(vehicle, preferences) ==
  IF IsSubstring(ToLower(preferences.fuelPreference), ToLower(vehicle.engine.fuelType))
  THEN 10 ELSE -10

Min(a, b) == IF a < b THEN a ELSE b
Max(a, b) == IF a > b THEN a ELSE b

\* variant: the upper clamp is left out
ClampBelow(score) == Max(0, score)

\* line 269: max(0, min(100, score))
Clamp(score) == Max(0, Min(100, score))

calculate_match_score(vehicle, preferences) ==
  LET capacity == ParseInt(vehicle.seatingCapacity.s)
      seating == IF Truthy(vehicle.seatingCapacity)
                 THEN SeatingPenalty(capacity.val, preferences.seatingMinimum) ELSE 0
      score == 100 - FeaturePenalty(vehicle, preferences) - seating
                   + FuelBonus(vehicle, preferences)
  IN  IF ~InList(vehicle.type, preferences.vehicleTypes) THEN Return(0)
      ELSE IF Truthy(vehicle.seatingCapacity) /\ ~capacity.ok THEN capacity
      ELSE Return(Clamp(score))

-----------------------------------------------------------------------------
(* The request handlers (backend/api/finance.py) and the request schemas    *)
(* (backend/schemas/finance_schemas.py).  A handler's outcome is the body   *)
(* it returns, the HTTPException it raises, or the exception it lets        *)
(* through to the framework.  The database is the sequence of the rows of   *)
(* the vehicles table, or is broken and fails every statement.              *)

\* the ranges of the request schemas
MinLoanTerm == 12
MaxLoanTerm == 84
MinLeaseTerm == 24
MaxLeaseTerm == 48
MinYears == 1
MaxYears == 10

HTTPException(status_code) ==
  [ok |-> FALSE, exc |-> "HTTPException", status_code |-> status_code]

\* d[key] on a dict: a missing key is a KeyError
GetItem(d, key) == IF key \in DOMAIN d THEN Return(d[key]) ELSE Raise("KeyError")

\* db.execute(...).fetchall()
Execute(db, rows) == IF db.broken THEN Raise("sqlite3.Error") ELSE Return(rows)

\* LIMIT k, and l[:k]
Limit(l, k) == SubSeq(l, 1, Min(k, Len(l)))

RECURSIVE InsertByPrice(_, _)
InsertByPrice(sorted, vehicle) ==
  IF sorted = <<>> THEN <<vehicle>>
  ELSE IF Head(sorted).price_baseMSRP >= vehicle.price_baseMSRP
       THEN <<Head(sorted)>> \o InsertByPrice(Tail(sorted), vehicle)
       ELSE <<vehicle>> \o sorted

\* ORDER BY CAST(price_baseMSRP AS FLOAT) DESC; rows of one price stay in
\* table order
RECURSIVE OrderByPriceDesc(_, _)
OrderByPriceDesc(vehicles, sorted) ==
  IF vehicles = <<>> THEN sorted
  ELSE OrderByPriceDesc(Tail(vehicles), InsertByPrice(sorted, Head(vehicles)))

RECURSIVE DigitPrefix(_)
DigitPrefix(s) ==
  IF s = <<>> \/ ~IsDigit(Head(s)) THEN <<>>
  ELSE <<Head(s)>> \o DigitPrefix(Tail(s))

\* CAST(text AS INTEGER): the leading digits, 0 when there are none
SqlCastInteger(s) == ParseDigits(DigitPrefix(s), 0)

\* AffordabilityRequest
AffordabilityRequestValid(request) ==
  /\ request.monthlyIncome >= 0
  /\ request.monthlyExpenses >= 0
  /\ request.downPayment >= 0
  /\ ~request.interestRate.neg
  /\ request.loanTermMonths >= MinLoanTerm
  /\ request.loanTermMonths <= MaxLoanTerm
  /\ ~(request.monthlyExpenses >= request.monthlyIncome)

\* A local variable of a handler is bound once, as in
\* CHOOSE r \in {Body(v) : v \in {value}} : TRUE, which is Body(value).

\* the monthlyPayment entry of a suggestion or a recommendation
PaymentEntry(vehicle, down_payment, interest_rate, loan_term_months) ==
  CHOOSE r \in
    {IF loan.ok THEN GetItem(loan.val, "monthlyPayment") ELSE loan :
       loan \in {calculate_loan_payment(vehicle.price_baseMSRP, down_payment,
                                        interest_rate, loan_term_months)}} : TRUE

\* the list comprehension of the handler from row i on: the suggestions, or
\* the first exception
RECURSIVE Suggest(_, _, _, _, _)
Suggest(request, max_price, suggested_vehicles, i, suggestions) ==
  IF i > Len(suggested_vehicles) THEN Return(suggestions)
  ELSE
    LET vehicle == suggested_vehicles[i]
    IN  CHOOSE r \in
          {IF ~payment.ok THEN payment
           ELSE Suggest(request, max_price, suggested_vehicles, i + 1,
                  Append(suggestions,
                         [vehicle |-> vehicle,
                          monthlyPayment |-> payment.val,
                          affordabilityGap |-> max_price - vehicle.price_baseMSRP])) :
             payment \in {PaymentEntry(vehicle, request.downPayment,
                                       request.interestRate,
                                       request.loanTermMonths)}} : TRUE

\* the handler after the call of the calculator
AffordabilityBody(request, db, result) ==
  LET max_price == result.val.max_vehicle_price
      InBudget(vehicle) == vehicle.price_baseMSRP <= max_price
      cursor ==
        Execute(db, Limit(OrderByPriceDesc(SelectSeq(db.vehicles, InBudget), <<>>), 5))
  IN  IF ~result.ok THEN result
      ELSE IF ~cursor.ok THEN cursor
      ELSE CHOOSE r \in
             {IF ~suggestions.ok THEN suggestions
              ELSE Return([max_vehicle_price |-> result.val.max_vehicle_price,
                           monthly_payment_capacity |->
                             result.val.monthly_payment_capacity,
                           max_loan_amount |-> result.val.max_loan_amount,
                           suggestedVehicles |-> suggestions.val]) :
                suggestions \in {Suggest(request, max_price, cursor.val, 1, <<>>)}} : TRUE

\* except ValueError
AffordabilityExcept(outcome) ==
  IF ~outcome.ok /\ outcome.exc = "ValueError" THEN HTTPException(400) ELSE outcome

\* POST /finance/affordability
api_calculate_affordability(request, db) ==
  IF ~AffordabilityRequestValid(request) THEN Raise("RequestValidationError")
  ELSE CHOOSE r \in
         {AffordabilityExcept(outcome) :
            outcome \in
              {AffordabilityBody(request, db, result) :
                 result \in {calculate_affordability(request.monthlyIncome,
                                                     request.monthlyExpenses,
                                                     request.downPayment,
                                                     request.interestRate,
                                                     request.loanTermMonths)}}} : TRUE

\* QuizRequest
QuizRequestValid(request) ==
  /\ request.budget.monthly >= 0
  /\ request.budget.downPayment >= 0
  /\ request.preferences.seatingMinimum >= 2
  /\ request.financing.preferredType \in {"loan", "lease"}

SlotsPerDealership == 10

\* ten slots for each dealership of the vehicle
get_dealership_availability(dealerships) ==
  [i \in DOMAIN dealerships |->
     [name |-> dealerships[i], availableSlots |-> SlotsPerDealership]]

MinMatchScore == 50
AverageRate == 5
MaxRecommendations == 5

\* the loop of process_quiz from row i on: the recommendations, or the first
\* exception
RECURSIVE Recommend(_, _, _, _)
Recommend(request, vehicles, i, recommendations) ==
  IF i > Len(vehicles) THEN Return(recommendations)
  ELSE
    LET vehicle == vehicles[i]
        Include(score) ==
          CHOOSE r \in
            {IF ~monthly_payment.ok THEN monthly_payment
             ELSE Recommend(request, vehicles, i + 1,
                    Append(recommendations,
                           [vehicle |-> vehicle,
                            matchScore |-> score,
                            monthlyPayment |-> monthly_payment.val,
                            availableDealerships |->
                              get_dealership_availability(vehicle.dealerships)])) :
               monthly_payment \in
                 {IF request.financing.preferredType = "loan"
                  THEN PaymentEntry(vehicle, request.budget.downPayment,
                                    RInt(AverageRate), request.financing.termLength)
                  ELSE Return(None)}} : TRUE
    IN  CHOOSE r \in
          {IF ~score.ok THEN score
           ELSE IF ~(score.val >= MinMatchScore)
           THEN Recommend(request, vehicles, i + 1, recommendations)
           ELSE Include(score.val) :
             score \in {calculate_match_score(vehicle, request.preferences)}} : TRUE

\* variant: an entry goes before the entries of its own score
RECURSIVE InsertByScoreBeforeEqual(_, _)
InsertByScoreBeforeEqual(sorted, x) ==
  IF sorted = <<>> THEN <<x>>
  ELSE IF Head(sorted).matchScore > x.matchScore
       THEN <<Head(sorted)>> \o InsertByScoreBeforeEqual(Tail(sorted), x)
       ELSE <<x>> \o sorted

RECURSIVE InsertByScore(_, _)
InsertByScore(sorted, x) ==
  IF sorted = <<>> THEN <<x>>
  ELSE IF Head(sorted).matchScore >= x.matchScore
       THEN <<Head(sorted)>> \o InsertByScore(Tail(sorted), x)
       ELSE <<x>> \o sorted

\* recommendations.sort(key=matchScore, reverse=True): a stable sort
RECURSIVE SortByScore(_, _)
SortByScore(recommendations, sorted) ==
  IF recommendations = <<>> THEN sorted
  ELSE SortByScore(Tail(recommendations), InsertByScore(sorted, Head(recommendations)))

\* the handler after the price limit: params holds the limit when the query
\* has one
QuizBody(request, db, params) ==
  LET Selected(vehicle) ==
        /\ InList(vehicle.type, request.preferences.vehicleTypes)
        /\ ~vehicle.seatingCapacity.isNone
        /\ SqlCastInteger(vehicle.seatingCapacity.s) >= request.preferences.seatingMinimum
        /\ params # <<>> => vehicle.price_baseMSRP <= params[1]
      cursor == Execute(db, SelectSeq(db.vehicles, Selected))
  IN  IF ~cursor.ok THEN cursor
      ELSE CHOOSE r \in
             {IF ~recommendations.ok THEN recommendations
              ELSE Return([recommendations |->
                             Limit(SortByScore(recommendations.val, <<>>),
                                   MaxRecommendations)]) :
                recommendations \in {Recommend(request, cursor.val, 1, <<>>)}} : TRUE

\* the price limit of the query, when it has one
QuizParams(request) ==
  IF request.financing.preferredType = "loan"
  THEN CHOOSE r \in
         {IF ~affordable_price.ok THEN affordable_price
          ELSE Return(<<affordable_price.val>>) :
            affordable_price \in
              {GetItem(result.val, "max_vehicle_price") :
                 result \in {calculate_affordability(request.budget.monthly * 5, 0,
                                                     request.budget.downPayment,
                                                     RInt(AverageRate),
                                                     request.financing.termLength)}}} : TRUE
  ELSE Return(<<>>)

\* except sqlite3.Error, except ValueError
QuizExcept(outcome) ==
  IF ~outcome.ok /\ outcome.exc = "sqlite3.Error" THEN HTTPException(500)
  ELSE IF ~outcome.ok /\ outcome.exc = "ValueError" THEN HTTPException(400)
  ELSE outcome

\* POST /quiz/find-your-wheel
process_quiz(request, db) ==
  IF ~QuizRequestValid(request) THEN Raise("RequestValidationError")
  ELSE CHOOSE r \in
         {QuizExcept(outcome) :
            outcome \in
              {IF ~params.ok THEN params ELSE QuizBody(request, db, params.val) :
                 params \in {QuizParams(request)}}} : TRUE

-----------------------------------------------------------------------------
(* Inputs of the calls.                                                     *)

NumFeatures == 8
Features == 1..NumFeatures

FirstFeatures(k) == [i \in 1..k |-> i]
LastFeatures(k) == [i \in 1..k |-> NumFeatures + 1 - i]

VehicleFeatureLists == {<<>>, <<2, 1, 2>>}

MustHaveLists ==
  {FirstFeatures(k) : k \in 0..NumFeatures}
    \cup {FirstFeatures(k) \o <<1>> : k \in 1..NumFeatures}
    \cup {LastFeatures(k) : k \in 1..NumFeatures}

SeatingValues ==
  {None, Some(<<>>), Some(<<"0">>), Some(<<"5">>), Some(<<"1", "2">>)}

FuelTypes == {<<"G", "a", "s">>, <<"E", "V">>}
FuelPreferences == {<<>>, <<"g", "A", "S">>, <<"a", "s">>, <<"e", "v", "s">>}

ScoreVehicles ==
  {[type |-> t, features |-> f, seatingCapacity |-> c, engine |-> [fuelType |-> u]] :
     t \in {"Trucks", "Hybrids"}, f \in VehicleFeatureLists,
     c \in SeatingValues, u \in FuelTypes}

ScorePreferences ==
  {[vehicleTypes |-> t, mustHaveFeatures |-> m, seatingMinimum |-> s,
    fuelPreference |-> u] :
     t \in {<<>>, <<"Trucks">>, <<"Hybrids", "Trucks">>}, m \in MustHaveLists,
     s \in {2, 5, 7}, u \in FuelPreferences}


\* the longest loan term the calls below are made with
TopLoanTerm == 13

Prices == {100000, 2500000, 2999999}
DownPayments == {0, 200000, 2500000}
InterestRates == {RInt(0), RInt(5), RInt(1200), RInt(4800)}
LoanTerms == {0} \cup MinLoanTerm..TopLoanTerm

ResidualValues == {60000, 1500050, 1800000, 2999999}
MoneyFactors == {RInt(0), RFrac(25, 10000), RFrac(125, 100000)}
LeaseTerms == {MinLeaseTerm, 36, MaxLeaseTerm}

Incomes == {0, 211, 2098, 100000, 500003}
Expenses == {0, 19, 50000}

ComparedRates == {RInt(0), RInt(5)}
ComparedFactors == {RFrac(25, 10000)}
ComparedResiduals == {60000}

InitialValues == {100000, 123456, 2000000}
DepreciationRates == {RInt(0), RFrac(15, 100), RFrac(1, 4), RInt(1)}

Row(id, type, price, seats, features, fuel) ==
  [id |-> id, type |-> type, price_baseMSRP |-> price, seatingCapacity |-> seats,
   features |-> features, engine |-> [fuelType |-> fuel],
   dealerships |-> <<"Dallas", "Plano">>]

Gas == <<"G", "a", "s">>
Electric == <<"E", "V">>

\* rows of the vehicles table
Lot ==
  << Row(1, "Trucks", 4500000, Some(<<"5">>), <<1, 2>>, Gas),
     Row(2, "Hybrids", 2800000, Some(<<"5">>), <<1, 2, 3>>, Electric),
     Row(3, "Trucks", 2000000, Some(<<"7">>), <<1>>, Gas),
     Row(4, "Trucks", 2400000, Some(<<"1", "2">>), <<>>, Electric),
     Row(5, "Hybrids", 2200000, Some(<<"7">>), <<1, 2>>, Gas),
     Row(6, "Trucks", 1900000, None, <<1, 2>>, Gas),
     Row(7, "Trucks", 2100000, Some(<<"8">>), <<2, 1, 2>>, Gas),
     Row(8, "Hybrids", 2300000, Some(<<"7">>), <<2>>, Electric) >>

\* a table whose first row has a seatingCapacity that is not a number
LotWithNote ==
  <<Row(9, "Trucks", 2050000, Some(<<"7", "+">>), <<1, 2>>, Gas)>> \o SubSeq(Lot, 1, 2)

Reverse(l) == [i \in DOMAIN l |-> l[Len(l) + 1 - i]]

Databases ==
  {[vehicles |-> v, broken |-> FALSE] : v \in {<<>>, Lot, Reverse(Lot), LotWithNote}}
    \cup {[vehicles |-> <<>>, broken |-> TRUE]}

AffordabilityRequests ==
  [monthlyIncome : {0, 100000, 500003}, monthlyExpenses : {0, 50000},
   downPayment : {0, 2500000}, interestRate : {RInt(0), RInt(5)},
   loanTermMonths : {0, MinLoanTerm, TopLoanTerm}]

QuizRequests ==
  [budget : [monthly : {0, 80000}, downPayment : {0, 2500000}],
   preferences : [vehicleTypes : {<<"Trucks">>, <<"Hybrids", "Trucks">>},
                  mustHaveFeatures : {<<>>, <<1, 2, 3, 4, 5, 6>>, <<1, 2, 3, 4, 5, 6, 7>>},
                  seatingMinimum : {1, 2, 7},
                  fuelPreference : {<<>>, <<"e", "v">>}],
   financing : [preferredType : {"loan", "lease", "cash"},
                termLength : {0, MinLoanTerm, TopLoanTerm}]]

-----------------------------------------------------------------------------
(* The service: it is idle, or has just completed one call whose arguments *)
(* are in `call` and whose outcome is in `returned`.                             *)

VARIABLES default_loan_term, default_lease_term, call, returned

vars == <<default_loan_term, default_lease_term, call, returned>>

Idle == [op |-> "idle"]

\* FinanceCalculator.__init__ and the module-level calculator
Init ==
  /\ default_loan_term = 60
  /\ default_lease_term = 36
  /\ call = Idle
  /\ returned = Idle

MatchScore ==
  /\ call.op = "idle"
  /\ \E v \in ScoreVehicles, p \in ScorePreferences :
       /\ call' = [op |-> "calculate_match_score", vehicle |-> v, preferences |-> p]
       /\ returned' = calculate_match_score(v, p)
  /\ UNCHANGED <<default_loan_term, default_lease_term>>

\* variant: the term of the call is kept as the calculator's default
LoanPaymentKeepingTerm ==
  /\ call.op = "idle"
  /\ \E p \in Prices, d \in DownPayments, r \in InterestRates, n \in LoanTerms :
       /\ call' = [op |-> "calculate_loan_payment", vehicle_price |-> p,
                   down_payment |-> d, interest_rate |-> r, loan_term_months |-> n]
       /\ returned' = calculate_loan_payment(p, d, r, n)
       /\ default_loan_term' = n
  /\ UNCHANGED default_lease_term

LoanPayment ==
  /\ call.op = "idle"
  /\ \E p \in Prices, d \in DownPayments, r \in InterestRates, n \in LoanTerms :
       /\ call' = [op |-> "calculate_loan_payment", vehicle_price |-> p,
                   down_payment |-> d, interest_rate |-> r, loan_term_months |-> n]
       /\ returned' = calculate_loan_payment(p, d, r, n)
  /\ UNCHANGED <<default_loan_term, default_lease_term>>

LeasePayment ==
  /\ call.op = "idle"
  /\ \E p \in Prices, v \in ResidualValues, m \in MoneyFactors,
        d \in DownPayments, n \in LeaseTerms :
       /\ call' = [op |-> "calculate_lease_payment", vehicle_price |-> p,
                   residual_value |-> v, money_factor |-> m, down_payment |-> d,
                   lease_term_months |-> n]
       /\ returned' = calculate_lease_payment(p, v, m, d, n)
  /\ UNCHANGED <<default_loan_term, default_lease_term>>

Affordability ==
  /\ call.op = "idle"
  /\ \E i \in Incomes, e \in Expenses, d \in DownPayments, r \in InterestRates,
        n \in LoanTerms :
       /\ call' = [op |-> "calculate_affordability", monthly_income |-> i,
                   monthly_expenses |-> e, down_payment |-> d, interest_rate |-> r,
                   loan_term_months |-> n]
       /\ returned' = calculate_affordability(i, e, d, r, n)
  /\ UNCHANGED <<default_loan_term, default_lease_term>>

Depreciation ==
  /\ call.op = "idle"
  /\ \E v \in InitialValues, y \in MinYears..MaxYears, r \in DepreciationRates :
       /\ call' = [op |-> "calculate_depreciation", initial_value |-> v,
                   years |-> y, annual_depreciation_rate |-> r]
       /\ returned' = calculate_depreciation(v, y, r)
  /\ UNCHANGED <<default_loan_term, default_lease_term>>

\* the attributes of the module-level calculator, as a method reads them
Self == [default_loan_term |-> default_loan_term,
         default_lease_term |-> default_lease_term]

CompareLeaseVsLoan ==
  /\ call.op = "idle"
  /\ \E p \in Prices, d \in DownPayments, r \in ComparedRates, m \in ComparedFactors,
        v \in ComparedResiduals :
       /\ call' = [op |-> "compare_lease_vs_loan", vehicle_price |-> p,
                   down_payment |-> d, loan_interest_rate |-> r,
                   lease_money_factor |-> m, residual_value |-> v]
       /\ returned' = compare_lease_vs_loan(Self, p, d, r, m, v)
  /\ UNCHANGED <<default_loan_term, default_lease_term>>

\* the caller takes the outcome; the service holds nothing of the call
AffordabilityHandler ==
  /\ call.op = "idle"
  /\ \E request \in AffordabilityRequests, db \in Databases :
       /\ call' = [op |-> "api_calculate_affordability", request |-> request, db |-> db]
       /\ returned' = api_calculate_affordability(request, db)
  /\ UNCHANGED <<default_loan_term, default_lease_term>>

QuizHandler ==
  /\ call.op = "idle"
  /\ \E request \in QuizRequests, db \in Databases :
       /\ call' = [op |-> "process_quiz", request |-> request, db |-> db]
       /\ returned' = process_quiz(request, db)
  /\ UNCHANGED <<default_loan_term, default_lease_term>>

Complete ==
  /\ call.op # "idle"
  /\ call' = Idle
  /\ returned' = Idle
  /\ UNCHANGED <<default_loan_term, default_lease_term>>

Next ==
  \/ MatchScore
  \/ LoanPayment
  \/ LeasePayment
  \/ Affordability
  \/ Depreciation
  \/ CompareLeaseVsLoan
  \/ AffordabilityHandler
  \/ QuizHandler
  \/ Complete

Spec == Init /\ [][Next]_vars
-----------------------------------------------------------------------------
(* Properties of the match scorer.                                          *)

Scored == call.op = "calculate_match_score"

TypeMatches == InList(call.vehicle.type, call.preferences.vehicleTypes)

\* the score before the final clamp, for a vehicle of a preferred type
RawScore(vehicle, preferences) ==
  100 - 10 * Cardinality(ToSet(preferences.mustHaveFeatures) \ ToSet(vehicle.features))
      - (IF Truthy(vehicle.seatingCapacity)
            /\ ParseInt(vehicle.seatingCapacity.s).val < preferences.seatingMinimum
         THEN 30 ELSE 0)
      + (IF IsSubstring(ToLower(preferences.fuelPreference),
                        ToLower(vehicle.engine.fuelType))
         THEN 10 ELSE -10)

ReferenceScore(vehicle, preferences) ==
  IF ~InList(vehicle.type, preferences.vehicleTypes) THEN 0
  ELSE Max(0, Min(100, RawScore(vehicle, preferences)))

WithMustHave(preferences, f) ==
  [preferences EXCEPT !.mustHaveFeatures = Append(@, f)]

\* C3: adding to mustHaveFeatures a feature the vehicle lacks never increases
\* the score.
ScoreMonotoneInMustHave ==
  Scored =>
    \A f \in Features \ ToSet(call.vehicle.features) :
      calculate_match_score(call.vehicle, WithMustHave(call.preferences, f)).val
        <= returned.val

\* C3's case: a lacking feature is added and the score goes down by 10
ScoreMonotoneWitness ==
  /\ Scored /\ returned.val = 50
  /\ \E f \in Features \ ToSet(call.vehicle.features) :
       calculate_match_score(call.vehicle, WithMustHave(call.preferences, f)).val = 40

MaxSeatRaise == 3

WithSeatingMinimum(preferences, m) == [preferences EXCEPT !.seatingMinimum = m]

Capacity == ParseInt(call.vehicle.seatingCapacity.s).val

\* a type-matching vehicle with a capacity at or above the seating minimum
SeatingMet ==
  /\ Scored /\ TypeMatches
  /\ Truthy(call.vehicle.seatingCapacity)
  /\ call.preferences.seatingMinimum <= Capacity

ScoreWithMinimum(m) ==
  calculate_match_score(call.vehicle, WithSeatingMinimum(call.preferences, m)).val

\* C4 as stated: raising seatingMinimum above the capacity lowers the score by
\* exactly 30, and raising it further lowers it no more.
SeatingRaiseCostsThirty ==
  SeatingMet =>
    \A m \in (Capacity + 1)..(Capacity + MaxSeatRaise) :
      /\ ScoreWithMinimum(m) = returned.val - 30
      /\ \A m2 \in m..(Capacity + MaxSeatRaise) : ScoreWithMinimum(m2) = ScoreWithMinimum(m)

\* C4 (amended): raising seatingMinimum above the capacity lowers a score of 30
\* to 90 by exactly 30, takes a score below 30 to 0 and a score of 100 to 70 or
\* 80 (the clamp hides part of the 30), and raising it further lowers it no more.
SeatingRaiseClamped ==
  SeatingMet =>
    \A m \in (Capacity + 1)..(Capacity + MaxSeatRaise) :
      /\ returned.val \in 30..99 => ScoreWithMinimum(m) = returned.val - 30
      /\ returned.val < 30 => ScoreWithMinimum(m) = 0
      /\ returned.val = 100 => ScoreWithMinimum(m) \in {70, 80}
      /\ \A m2 \in m..(Capacity + MaxSeatRaise) : ScoreWithMinimum(m2) = ScoreWithMinimum(m)

\* C4's case: the minimum is met, the score is 60, and a raise makes it 30
SeatingRaiseWitness ==
  /\ SeatingMet /\ returned.val = 60
  /\ ScoreWithMinimum(Capacity + 1) = 30
-----------------------------------------------------------------------------
(* Properties of the finance calculator.  Returned money is in cents.       *)

\* a call of calculate_loan_payment with a valid LoanTerms input
ValidLoan ==
  /\ call.op = "calculate_loan_payment"
  /\ call.down_payment < call.vehicle_price
  /\ call.loan_term_months \in MinLoanTerm..MaxLoanTerm
  /\ ~call.interest_rate.neg

\* C5 as stated: loan_amount is price less down payment, total_cost is the
\* returned monthly_payment times the term, and total_interest is the returned
\* total_cost less the returned loan_amount.
LoanResultExact ==
  ValidLoan =>
    /\ returned.ok
    /\ returned.val.loan_amount = call.vehicle_price - call.down_payment
    /\ returned.val.total_cost = returned.val.monthly_payment * call.loan_term_months
    /\ returned.val.total_interest = returned.val.total_cost - returned.val.loan_amount

\* C5 (amended): loan_amount is price less down payment, total_cost is within
\* (term + 1) / 2 cents of the returned monthly_payment times the term, and
\* total_interest is within one cent of the returned total_cost less the
\* returned loan_amount: every field is rounded from the unrounded amounts,
\* none from another returned field.
LoanResultConsistent ==
  ValidLoan =>
    /\ returned.ok
    /\ returned.val.loan_amount = call.vehicle_price - call.down_payment
    /\ 2 * Abs(returned.val.total_cost - returned.val.monthly_payment * call.loan_term_months)
         <= call.loan_term_months + 1
    /\ Abs(returned.val.total_interest - (returned.val.total_cost - returned.val.loan_amount)) <= 1

\* C5's case: a valid loan at a positive rate whose total_cost is not the
\* rounded payment times the term
LoanResultWitness ==
  /\ ValidLoan /\ ~RIsZero(call.interest_rate)
  /\ call.down_payment > 0
  /\ returned.val.total_cost # returned.val.monthly_payment * call.loan_term_months
  /\ returned.val.total_interest > 0

\* a call of calculate_lease_payment with a valid LeaseTerms input
ValidLease ==
  /\ call.op = "calculate_lease_payment"
  /\ call.residual_value < call.vehicle_price
  /\ call.lease_term_months \in MinLeaseTerm..MaxLeaseTerm

\* C6 as stated: the returned monthly_payment is exactly the sum of the
\* returned monthly_depreciation and monthly_finance_charge.
LeaseDecompositionExact ==
  ValidLease =>
    /\ returned.ok
    /\ returned.val.monthly_payment
         = returned.val.monthly_depreciation + returned.val.monthly_finance_charge

\* C6 (amended): the returned monthly_payment is within one cent of the sum of
\* the returned monthly_depreciation and monthly_finance_charge.
LeaseDecompositionWithinCent ==
  ValidLease =>
    /\ returned.ok
    /\ Abs(returned.val.monthly_payment
             - (returned.val.monthly_depreciation + returned.val.monthly_finance_charge)) <= 1

\* C6's case: a valid lease with a finance charge whose parts are a cent off
LeaseDecompositionWitness ==
  /\ ValidLease /\ returned.val.monthly_finance_charge > 0
  /\ returned.val.monthly_payment
       # returned.val.monthly_depreciation + returned.val.monthly_finance_charge

Depreciated == call.op = "calculate_depreciation"

RECURSIVE SumTo(_, _)
SumTo(s, y) == IF y = 0 THEN 0 ELSE s[y] + SumTo(s, y - 1)

SeriesLengths ==
  /\ returned.ok
  /\ Len(returned.val.yearly_values) = call.years
  /\ Len(returned.val.yearly_depreciation) = call.years
  /\ Len(returned.val.cumulative_depreciation) = call.years

\* C7 as stated: three sequences of length years, and the first y entries of
\* yearly_depreciation sum to cumulative_depreciation[y], for every y.
DepreciationSumsExact ==
  Depreciated =>
    /\ SeriesLengths
    /\ \A y \in 1..call.years :
         SumTo(returned.val.yearly_depreciation, y) = returned.val.cumulative_depreciation[y]

\* C7 (amended): three sequences of length years, and the first y entries of
\* yearly_depreciation sum to within (y + 1) / 2 cents of
\* cumulative_depreciation[y]: each entry carries its own rounding.
DepreciationSumsWithinRounding ==
  Depreciated =>
    /\ SeriesLengths
    /\ \A y \in 1..call.years :
         2 * Abs(SumTo(returned.val.yearly_depreciation, y)
                   - returned.val.cumulative_depreciation[y]) <= y + 1

\* C7's case: a ten-year series whose yearly amounts do not sum to the
\* cumulative one
DepreciationSumsWitness ==
  /\ Depreciated /\ call.years = MaxYears
  /\ \E y \in 1..call.years :
       SumTo(returned.val.yearly_depreciation, y) # returned.val.cumulative_depreciation[y]

\* a call of calculate_affordability with a valid AffordabilityInputs input
\* and a positive capacity
ValidAffordable ==
  /\ call.op = "calculate_affordability"
  /\ call.monthly_expenses < call.monthly_income
  /\ call.loan_term_months \in MinLoanTerm..MaxLoanTerm
  /\ ~call.interest_rate.neg
  /\ returned.val.monthly_payment_capacity > 0

\* the monthly payment of the loan for the returned max_vehicle_price
RoundTripPayment ==
  calculate_loan_payment(returned.val.max_vehicle_price, call.down_payment,
                         call.interest_rate, call.loan_term_months).val.monthly_payment

\* C8 as stated: the loan for max_vehicle_price at the same down payment, rate
\* and term costs monthly_payment_capacity a month, within one cent.
AffordabilityRoundTrip ==
  ValidAffordable =>
    Abs(RoundTripPayment - returned.val.monthly_payment_capacity) <= 1

\* the annual rate is at most 1200 percent, a monthly rate of at most 1
RateAtMostOneAMonth == ~RSub(RInt(1200), call.interest_rate).neg

\* C8 (amended): as stated, for annual rates of at most 1200 percent; above
\* that the half cent lost in rounding max_vehicle_price is multiplied by the
\* monthly rate into more than a cent of payment.
AffordabilityRoundTripModerateRate ==
  ValidAffordable /\ RateAtMostOneAMonth =>
    Abs(RoundTripPayment - returned.val.monthly_payment_capacity) <= 1

\* C8's case: a positive rate, a down payment, and a round trip that is a cent
\* off the capacity
AffordabilityRoundTripWitness ==
  /\ ValidAffordable /\ RateAtMostOneAMonth
  /\ ~RIsZero(call.interest_rate)
  /\ Abs(RoundTripPayment - returned.val.monthly_payment_capacity) = 1
-----------------------------------------------------------------------------
(* Properties of the error handling.                                        *)

\* the outcome is an explicit error of the kind the handlers turn into a
\* client error: a ValueError from the calculator, a 4xx from a handler
ExplicitError ==
  /\ ~returned.ok
  /\ \/ returned.exc = "ValueError"
     \/ returned.exc = "HTTPException" /\ returned.status_code \in 400..499

\* the call reaches calculate_affordability with inputs whose capacity,
\* 0.2 * monthly_income - monthly_expenses, is zero or less
Unaffordable ==
  \/ /\ call.op = "calculate_affordability"
     /\ 2 * call.monthly_income <= 10 * call.monthly_expenses
  \/ /\ call.op = "api_calculate_affordability"
     /\ AffordabilityRequestValid(call.request)
     /\ 2 * call.request.monthlyIncome <= 10 * call.request.monthlyExpenses
  \/ /\ call.op = "process_quiz"
     /\ QuizRequestValid(call.request)
     /\ call.request.financing.preferredType = "loan"
     /\ call.request.budget.monthly = 0

\* C9: whenever the capacity is zero or less, calculate_affordability and the
\* handlers that call it end in an explicit error, and never return a result
\* with a negative max_loan_amount or a max_vehicle_price below the down
\* payment.
UnaffordableIsExplicit ==
  Unaffordable =>
    /\ ExplicitError
    /\ ~(returned.ok /\ call.op = "calculate_affordability"
           /\ (returned.val.max_loan_amount < 0
                 \/ returned.val.max_vehicle_price < call.down_payment))
    /\ ~(returned.ok /\ call.op = "api_calculate_affordability"
           /\ (returned.val.max_loan_amount < 0
                 \/ returned.val.max_vehicle_price < call.request.downPayment))

\* the call reaches calculate_loan_payment with a loan term of 0
ZeroTerm ==
  \/ /\ call.op = "calculate_loan_payment"
     /\ call.loan_term_months = 0
  \/ /\ call.op = "process_quiz"
     /\ QuizRequestValid(call.request)
     /\ call.request.financing.preferredType = "loan"
     /\ call.request.financing.termLength = 0
     /\ ~call.db.broken
     /\ \E i \in DOMAIN call.db.vehicles :
          LET vehicle == call.db.vehicles[i]
          IN  /\ vehicle.price_baseMSRP <= call.request.budget.downPayment
              /\ ~vehicle.seatingCapacity.isNone
              /\ calculate_match_score(vehicle, call.request.preferences)
                   = Return(100)

\* C10: a call of calculate_loan_payment with a loan term of 0, directly or
\* from the quiz handler, ends in an explicit error and never in a
\* ZeroDivisionError.
ZeroTermIsGuarded ==
  ZeroTerm => ExplicitError /\ returned.exc # "ZeroDivisionError"

\* the call is calculate_loan_payment with a down payment that is not below
\* the vehicle price, the other arguments being in the range of the schema
DownPaymentCoversPrice ==
  /\ call.op = "calculate_loan_payment"
  /\ call.down_payment >= call.vehicle_price
  /\ call.loan_term_months \in MinLoanTerm..MaxLoanTerm
  /\ ~call.interest_rate.neg

\* C11: a call of calculate_loan_payment with downPayment >= vehiclePrice ends
\* in a validation error and never returns a LoanResult, whose loan_amount
\* would be zero or negative.
DownPaymentIsRejected ==
  DownPaymentCoversPrice => ExplicitError /\ ~returned.ok

-----------------------------------------------------------------------------
(* Properties of the handlers.                                              *)

QuizCompleted == call.op = "process_quiz" /\ returned.ok

\* the rows the vehicle store returns for the query of the quiz
QuizCandidates ==
  LET request == call.request
      limit == QuizParams(request)
      Matches(vehicle) ==
        /\ InList(vehicle.type, request.preferences.vehicleTypes)
        /\ ~vehicle.seatingCapacity.isNone
        /\ SqlCastInteger(vehicle.seatingCapacity.s) >= request.preferences.seatingMinimum
        /\ limit.val # <<>> => vehicle.price_baseMSRP <= limit.val[1]
  IN  SelectSeq(call.db.vehicles, Matches)

CandidateScore(i) ==
  calculate_match_score(QuizCandidates[i], call.request.preferences).val

\* the candidates with a score of 50 or more
GoodCandidates == {i \in DOMAIN QuizCandidates : CandidateScore(i) >= 50}

\* candidate i is ranked before candidate j: a higher score, or the same score
\* and an earlier place in the listing
RankedBefore(i, j) ==
  \/ CandidateScore(i) > CandidateScore(j)
  \/ CandidateScore(i) = CandidateScore(j) /\ i < j

CandidateRank(i) == Cardinality({j \in GoodCandidates : RankedBefore(j, i)}) + 1

\* C12: the recommendations of the quiz handler are the first (at most 5) of
\* the candidates with a score of 50 or more, in the order of non-increasing
\* score, candidates of one score in their listing order.
QuizRanking ==
  QuizCompleted =>
    LET recommendations == returned.val.recommendations
    IN  /\ Len(recommendations) = Min(5, Cardinality(GoodCandidates))
        /\ \A k \in DOMAIN recommendations :
             \E i \in GoodCandidates :
               /\ CandidateRank(i) = k
               /\ recommendations[k].vehicle = QuizCandidates[i]
               /\ recommendations[k].matchScore = CandidateScore(i)

\* five recommendations out of six candidates of 50 or more, several of one
\* score, one of which is cut off, and a candidate below 50 left out
QuizRankingWitness ==
  /\ QuizCompleted
  /\ Len(returned.val.recommendations) = 5
  /\ Cardinality(GoodCandidates) > 5
  /\ \E i \in DOMAIN QuizCandidates : CandidateScore(i) < 50
  /\ \E i \in GoodCandidates :
       /\ CandidateRank(i) > 5
       /\ CandidateScore(i) = returned.val.recommendations[5].matchScore
  /\ \E i, j \in GoodCandidates :
       i < j /\ CandidateScore(i) < CandidateScore(j) /\ CandidateRank(j) <= 5

\* the affordability handler has a vehicle to suggest: the request is valid,
\* the table can be read and a row is priced within the ceiling
HasSuggestion ==
  /\ call.op = "api_calculate_affordability"
  /\ AffordabilityRequestValid(call.request)
  /\ ~call.db.broken
  /\ \E i \in DOMAIN call.db.vehicles :
       call.db.vehicles[i].price_baseMSRP
         <= calculate_affordability(call.request.monthlyIncome,
                                    call.request.monthlyExpenses,
                                    call.request.downPayment,
                                    call.request.interestRate,
                                    call.request.loanTermMonths).val.max_vehicle_price

\* the quiz handler has a vehicle to recommend with a loan: the request is
\* valid and of the loan type with a term that is not 0, the table can be
\* read, every candidate gets a score and one of them a score of 50 or more
HasLoanRecommendation ==
  /\ call.op = "process_quiz"
  /\ QuizRequestValid(call.request)
  /\ call.request.financing.preferredType = "loan"
  /\ call.request.financing.termLength # 0
  /\ ~call.db.broken
  /\ \A i \in DOMAIN QuizCandidates :
       calculate_match_score(QuizCandidates[i], call.request.preferences).ok
  /\ GoodCandidates # {}

\* the monthly_payment calculate_loan_payment returns for the price
LoanPaymentFor(price, down_payment, interest_rate, loan_term_months) ==
  calculate_loan_payment(price, down_payment, interest_rate,
                         loan_term_months).val.monthly_payment

\* C14: a handler that has a vehicle to suggest or to recommend with a loan
\* completes with a response in which the monthlyPayment of every entry is the
\* monthly payment calculate_loan_payment returns for the vehicle's price and
\* the down payment, rate and term of the request.
PaymentsAgree ==
  /\ HasSuggestion =>
       /\ returned.ok
       /\ \A k \in DOMAIN returned.val.suggestedVehicles :
            LET entry == returned.val.suggestedVehicles[k]
            IN  entry.monthlyPayment =
                  LoanPaymentFor(entry.vehicle.price_baseMSRP,
                                 call.request.downPayment, call.request.interestRate,
                                 call.request.loanTermMonths)
  /\ HasLoanRecommendation =>
       /\ returned.ok
       /\ \A k \in DOMAIN returned.val.recommendations :
            LET entry == returned.val.recommendations[k]
            IN  entry.monthlyPayment =
                  LoanPaymentFor(entry.vehicle.price_baseMSRP,
                                 call.request.budget.downPayment, RInt(AverageRate),
                                 call.request.financing.termLength)

-----------------------------------------------------------------------------
(* Properties of the calculator's state.                                    *)

Compared == call.op = "compare_lease_vs_loan"

\* the calculator as __init__ leaves it
FreshCalculator == [default_loan_term |-> 60, default_lease_term |-> 36]

====
